---- MODULE Spec2Model ----
(***************************************************************************)
(* A model of gun_violence_dashboard_data: the anomaly check and the       *)
(* geographic enrichment of shootings.py, the court-case side table of     *)
(* courts.py and the homicide daily series of homicides.py.                *)
(*                                                                         *)
(* Cell values of data frames are strings, as in the CSV/GeoJSON files;    *)
(* "NaN" is pandas' missing value.  Each subsystem has its own             *)
(* specification; the variables of the other subsystems stay at "off".     *)
(***************************************************************************)
EXTENDS Integers, Sequences, FiniteSets, TLC

VARIABLES
    \* ---- ShootingVictimsData.get, the CHECKS block
    ignore_checks,   \* the dataclass field ShootingVictimsData.ignore_checks
    new_len,         \* len(df): rows of the freshly formatted batch
    old_files,       \* number of shootings_20*.json files on disk
    old_len,         \* len(old_df): rows of the persisted snapshot
    check_result,    \* outcome of the CHECKS block
    \* ---- add_geographic_info and the geometry fill of get
    geo_in,          \* the argument df of add_geographic_info
    df,              \* the local df, a fresh copy
    original_length, \* the local original_length
    geo_layer,       \* position of the loop over geo_funcs
    geo_pc,          \* position inside add_geographic_info / get
    \* ---- courts.run / courts.merge
    court_file,      \* DATA_PATH: scraped_courts_data.csv
    merge_in,        \* the frame handed to courts.merge
    merge_out,       \* what courts.merge returned (or raised)
    merge_pc,        \* which merge call produced merge_out
    \* ---- PPDHomicideTotal
    daily_csv,       \* data/raw/homicide_totals_daily.csv, rows in file order
    page,            \* the scraped page: as_of_date and the YTD total
    force,           \* the force argument of update
    hom_pc,          \* position of the homicide stage
    hom_result,      \* outcome of the last update
    totals_json,     \* data/processed/homicide_totals.json
    \* ---- ShootingVictimsData.get and ShootingVictimsData.save
    raw,             \* the rows carto2gpd.get returned
    victims,         \* the frame get returned, the argument of save
    get_result,      \* how get ended
    data_years,      \* data/processed/data_years.json
    partitions,      \* data/processed/shootings_<year>.json, by year
    bucket,          \* the objects shootings_<year>.json of the s3 bucket
    save_i,          \* position of the loop over unique_years
    save_pc,         \* position inside save, or how it ended
    disk_before,     \* data_years.json and the partitions as save found them
    \* ---- daily_update
    homicides_only,  \* the flag --homicides-only
    shootings_only,  \* the flag --shootings-only
    meta_json,       \* data/meta.json
    run_pc           \* position inside daily_update

anomVars == <<ignore_checks, new_len, old_files, old_len, check_result>>
geoVars == <<geo_in, df, original_length, geo_layer, geo_pc>>
courtVars == <<court_file, merge_in, merge_out, merge_pc>>
homVars == <<daily_csv, page, force, hom_pc, hom_result, totals_json>>
shootVars ==
    <<raw, victims, get_result, data_years, partitions, bucket, save_i, save_pc,
      disk_before>>
runVars == <<homicides_only, shootings_only, meta_json, run_pc>>
vars == <<anomVars, geoVars, courtVars, homVars, shootVars, runVars>>

NaN == "NaN"

\* ---------------------------------------------------------------- helpers
Range(s) == {s[i] : i \in 1..Len(s)}

RECURSIVE SeqsUpTo(_, _)
\* every sequence over S of length at most n
SeqsUpTo(S, n) ==
    IF n = 0 THEN {<<>>}
    ELSE LET shorter == SeqsUpTo(S, n - 1)
         IN  shorter \cup {Append(s, x) : s \in {t \in shorter : Len(t) = n - 1}, x \in S}

\* ------------------------------------------------------------------ bounds
MaxShrink == 15      \* the new batch is at most this much shorter than the old
MaxGrowth == 105     \* the new batch is at most this much longer than the old
MaxRows == 2         \* rows of a batch handed to add_geographic_info
MaxIncidents == 2    \* rows the incidents table returns for the missing keys
MaxCourtRows == 2    \* rows of a frame handed to courts.run or courts.merge
MaxDate == 3         \* the days the homicide page can report are 0..MaxDate
MaxTotal == 2        \* the year-to-date totals are 0..MaxTotal

\* ==========================================================================
\* ShootingVictimsData.get: the CHECKS block (shootings.py 374-394)
\* ==========================================================================
OldSnapshotLens == {0, 12, 1000}

UPPER_TOLERANCE == 100
LOWER_TOLERANCE == 10

\* load_existing_shootings_data: pd.concat of an empty list of files raises
LoadFails(nfiles) == nfiles = 0

TooManyRowsOffByOne(newLen, oldLen) == newLen - oldLen >= UPPER_TOLERANCE
TooManyRows(newLen, oldLen) == newLen - oldLen > UPPER_TOLERANCE

TooFewRowsStaleTolerance(newLen, oldLen) == oldLen - newLen > UPPER_TOLERANCE
TooFewRows(newLen, oldLen) == oldLen - newLen > LOWER_TOLERANCE

RowCountChecks(ignore, newLen, nfiles, oldLen) ==
    IF ignore THEN "skipped"
    ELSE IF LoadFails(nfiles) THEN "load_error"
    ELSE IF TooManyRows(newLen, oldLen) THEN "too_many_rows"
    ELSE IF TooFewRows(newLen, oldLen) THEN "too_few_rows"
    ELSE "passed"

AnomOff ==
    /\ ignore_checks = FALSE /\ new_len = 0 /\ old_files = 0 /\ old_len = 0
    /\ check_result = "off"

InitAnomaly ==
    /\ ignore_checks \in BOOLEAN
    /\ old_files \in 0..1
    /\ old_len \in (IF old_files = 0 THEN {0} ELSE OldSnapshotLens)
    /\ new_len \in {n \in (old_len - MaxShrink)..(old_len + MaxGrowth) : n >= 0}
    /\ check_result = "pending"

Checks ==
    /\ check_result = "pending"
    /\ check_result' = RowCountChecks(ignore_checks, new_len, old_files, old_len)
    /\ UNCHANGED <<ignore_checks, new_len, old_files, old_len>>
    /\ UNCHANGED <<geoVars, courtVars, homVars, shootVars, runVars>>

\* ==========================================================================
\* add_geographic_info (shootings.py 104-183) and the fill of get (399-402)
\* ==========================================================================
DcKeys == {"k1", "k2"}
Points == {"p1", "p2"}
EmptyPoint == "POINT EMPTY"

\* the seven columns the layers of geo_funcs add, in the order of the loop
GeoColumns ==
    << "zip_code", "police_district", "council_district", "neighborhood",
       "school_name", "house_district", "senate_district" >>

\* a row of the batch; rid is the row's place in the input, its identity
NewRow(rid, key, geom) ==
    [ rid |-> rid, idx |-> rid - 1, dc_key |-> key, geometry |-> geom,
      zip_code |-> NaN, police_district |-> NaN, council_district |-> NaN,
      neighborhood |-> NaN, school_name |-> NaN, house_district |-> NaN,
      senate_district |-> NaN ]

\* the batches get can hand over: any keys, any point or no geometry
Batches ==
    { [i \in 1..Len(ks) |-> NewRow(i, ks[i][1], ks[i][2])] :
        ks \in SeqsUpTo(DcKeys \X (Points \cup {NaN}), MaxRows) }

\* polygon layers as geo_func() may deliver them: a clean partition, a layer
\* with two polygons over one point, and a layer that leaves a point uncovered
LayerCatalog ==
    { << [attr |-> "A", covers |-> {"p1"}], [attr |-> "B", covers |-> {"p2"}] >>,
      << [attr |-> "A", covers |-> {"p1"}], [attr |-> "B", covers |-> {"p1", "p2"}] >>,
      << [attr |-> "A", covers |-> {"p1"}] >> }

\* df.reset_index(drop=True)
ResetIndex(d) == [i \in 1..Len(d) |-> [d[i] EXCEPT !.idx = i - 1]]

\* ~df.geometry.within(city_limits): a missing geometry is within nothing
OutsideLimits(row, city) == row.geometry \notin city

\* df.loc[outside_limits, "geometry"] = np.nan
ClearOutside(d, city) ==
    [i \in 1..Len(d) |->
        IF OutsideLimits(d[i], city) THEN [d[i] EXCEPT !.geometry = NaN] ELSE d[i]]

IsMissing(row) == row.geometry = NaN
MissingRows(d) == SelectSeq(d, IsMissing)
LocatedRowsWrongSelector(d) == SelectSeq(d, IsMissing)
LocatedRows(d) == SelectSeq(d, LAMBDA row : ~IsMissing(row))

\* the keys of the WHERE dc_key IN ( ... ) clause
MissingKeys(d) == {row.dc_key : row \in Range(MissingRows(d))}

\* what the POST to the carto API can give for those keys: an error status,
\* or rows of incidents_part1_part2 with these keys (several per key allowed)
CartoResponses(keys) ==
    { [ok |-> FALSE, incidents |-> <<>>] } \cup
    { [ok |-> TRUE, incidents |-> inc] :
        inc \in SeqsUpTo([dc_key : keys, geometry : Points], MaxIncidents) }

\* incidents[["dc_key", "geometry"]].drop_duplicates(subset=["dc_key"])
DropDuplicateKeys(inc) ==
    LET FirstOfKey(i) == \A j \in 1..(i - 1) : inc[j].dc_key # inc[i].dc_key
        F[i \in 0..Len(inc)] ==
            IF i = 0 THEN <<>>
            ELSE IF FirstOfKey(i) THEN Append(F[i - 1], inc[i]) ELSE F[i - 1]
    IN  F[Len(inc)]

\* missing.drop(columns=["geometry"]).merge(right, on="dc_key", how="left"):
\* one output row for every match of a left row, one with NaN for none
LeftMergeGeometry(missing, right) ==
    LET Matches(row) == SelectSeq(right, LAMBDA r : r.dc_key = row.dc_key)
        Joined(row) ==
            IF Len(Matches(row)) = 0 THEN << [row EXCEPT !.geometry = NaN] >>
            ELSE [j \in 1..Len(Matches(row)) |->
                    [row EXCEPT !.geometry = Matches(row)[j].geometry]]
        F[i \in 0..Len(missing)] ==
            IF i = 0 THEN <<>> ELSE F[i - 1] \o Joined(missing[i])
    IN  F[Len(missing)]

\* lines 141-150: if matches > 0, merge and concatenate
RecoverGeometry(d, incidents) ==
    IF Len(incidents) > 0
    THEN ResetIndex(LocatedRows(d)
                    \o LeftMergeGeometry(MissingRows(d), DropDuplicateKeys(incidents)))
    ELSE d

\* gpd.sjoin(data, geo, how="left", predicate="within"): the left index is
\* repeated for every polygon the point is within
SJoinLeftWithin(d, layer, col) ==
    LET Within(row) == SelectSeq(layer, LAMBDA poly : row.geometry \in poly.covers)
        Joined(row) ==
            IF Len(Within(row)) = 0 THEN << [row EXCEPT ![col] = NaN] >>
            ELSE [j \in 1..Len(Within(row)) |-> [row EXCEPT ![col] = Within(row)[j].attr]]
        F[i \in 0..Len(d)] ==
            IF i = 0 THEN <<>> ELSE F[i - 1] \o Joined(d[i])
    IN  F[Len(d)]

\* out.loc[~out.index.duplicated()]
DropDuplicatedIndex(out) ==
    LET FirstOfIndex(i) == \A j \in 1..(i - 1) : out[j].idx # out[i].idx
        F[i \in 0..Len(out)] ==
            IF i = 0 THEN <<>>
            ELSE IF FirstOfIndex(i) THEN Append(F[i - 1], out[i]) ELSE F[i - 1]
    IN  F[Len(out)]

\* _add_geo_info
add_geo_info(data, geo, col) == DropDuplicatedIndex(SJoinLeftWithin(data, geo, col))

\* df.loc[df["neighborhood"].isnull(), "geometry"] = np.nan
ClearUnlocated(d) ==
    [i \in 1..Len(d) |->
        IF d[i].neighborhood = NaN THEN [d[i] EXCEPT !.geometry = NaN] ELSE d[i]]

\* if len(df) != original_length: raise ValueError
LengthChanged(d, n) == Len(d) # n

\* get: df.geometry.fillna(Point())
FillEmptyPoint(d) ==
    [i \in 1..Len(d) |->
        IF d[i].geometry = NaN THEN [d[i] EXCEPT !.geometry = EmptyPoint] ELSE d[i]]

GeoOff ==
    /\ geo_in = <<>> /\ df = <<>> /\ original_length = 0 /\ geo_layer = 0
    /\ geo_pc = "off"

InitGeo ==
    /\ geo_in \in Batches
    /\ df = <<>>
    /\ original_length = 0
    /\ geo_layer = 0
    /\ geo_pc = "call"

\* lines 107-121: copy, remember the length, clear what lies outside the city
CityLimits ==
    /\ geo_pc = "call"
    /\ \E city \in SUBSET Points :
          df' = ClearOutside(ResetIndex(geo_in), city)
    /\ original_length' = Len(geo_in)
    /\ geo_pc' = "recover"
    /\ UNCHANGED <<geo_in, geo_layer>>
    /\ UNCHANGED <<anomVars, courtVars, homVars, shootVars, runVars>>

\* lines 123-150: ask the incidents table for the missing geometries
Recover ==
    /\ geo_pc = "recover"
    /\ \E resp \in CartoResponses(MissingKeys(df)) :
          IF resp.ok
          THEN /\ df' = RecoverGeometry(df, resp.incidents)
               /\ geo_layer' = 1
               /\ geo_pc' = "join"
          ELSE /\ geo_pc' = "raised_carto"
               /\ UNCHANGED <<df, geo_layer>>
    /\ UNCHANGED <<geo_in, original_length>>
    /\ UNCHANGED <<anomVars, courtVars, homVars, shootVars, runVars>>

\* lines 173-174: one pass of the loop over geo_funcs
JoinLayer ==
    /\ geo_pc = "join"
    /\ geo_layer <= Len(GeoColumns)
    /\ \E layer \in LayerCatalog :
          df' = add_geo_info(df, layer, GeoColumns[geo_layer])
    /\ geo_layer' = geo_layer + 1
    /\ UNCHANGED <<geo_in, original_length, geo_pc>>
    /\ UNCHANGED <<anomVars, courtVars, homVars, shootVars, runVars>>

\* lines 176-183: the consistency step, the length check and the return
FinishGeo ==
    /\ geo_pc = "join"
    /\ geo_layer > Len(GeoColumns)
    /\ df' = ClearUnlocated(df)
    /\ geo_pc' = IF LengthChanged(df', original_length) THEN "raised_length" ELSE "returned"
    /\ UNCHANGED <<geo_in, original_length, geo_layer>>
    /\ UNCHANGED <<anomVars, courtVars, homVars, shootVars, runVars>>

\* get, lines 399-402
FillGeometry ==
    /\ geo_pc = "returned"
    /\ df' = FillEmptyPoint(df)
    /\ geo_pc' = "filled"
    /\ UNCHANGED <<geo_in, original_length, geo_layer>>
    /\ UNCHANGED <<anomVars, courtVars, homVars, shootVars, runVars>>


\* ==========================================================================
\* courts.run and courts.merge (courts.py 19-141)
\* ==========================================================================
\* a frame: its columns and its rows, each row a function on the columns
Frame(cols, rows) == [cols |-> cols, rows |-> rows]

\* a frame with the single column dc_key, as get hands it to merge
KeyFrame(keys) ==
    Frame({"dc_key"}, [i \in 1..Len(keys) |-> [c \in {"dc_key"} |-> keys[i]]])

FreshFrames == {KeyFrame(ks) : ks \in SeqsUpTo(DcKeys, MaxCourtRows)}

\* a row of scraped_courts_data.csv
IndexRow(key, flag) ==
    [c \in {"dc_key", "has_court_case"} |-> IF c = "dc_key" THEN key ELSE flag]

\* data[["dc_key"]].drop_duplicates(): the keys in order of first appearance
UniqueKeys(frame) ==
    LET rows == frame.rows
        First(i) == \A j \in 1..(i - 1) : rows[j].dc_key # rows[i].dc_key
        F[i \in 0..Len(rows)] ==
            IF i = 0 THEN <<>>
            ELSE IF First(i) THEN Append(F[i - 1], rows[i].dc_key) ELSE F[i - 1]
    IN  F[Len(rows)]

\* existing[existing["has_court_case"] == True]["dc_key"]
KnownCases(file) ==
    IF file.exists
    THEN {r.dc_key : r \in {x \in Range(file.rows) : x.has_court_case = "True"}}
    ELSE {}

\* lines 34-48: the incident numbers that are submitted to the scraper
IncidentNumbers(data, file) ==
    SelectSeq(UniqueKeys(data), LAMBDA k : k \notin KnownCases(file))

\* lines 101-117: portal_input.csv merged with the keys that have a case
ScrapeOutput(submitted, withCases) ==
    [i \in 1..Len(submitted) |->
        IndexRow(submitted[i], IF submitted[i] \in withCases THEN "True" ELSE "False")]

\* the file run leaves at DATA_PATH (line 120)
run(data, file, withCases) ==
    [exists |-> TRUE, rows |-> ScrapeOutput(IncidentNumbers(data, file), withCases)]

\* pandas' suffixes for columns both frames have
SuffixX(c) == IF c = "has_court_case" THEN "has_court_case_x" ELSE c
SuffixY(c) == IF c = "has_court_case" THEN "has_court_case_y" ELSE c

\* left.merge(right, on="dc_key", how="left")
LeftMergeOverwriting(left, right) ==
    LET rcols == right.cols \ {"dc_key"}
        cols == left.cols \cup rcols
        Matches(l) == SelectSeq(right.rows, LAMBDA r : r.dc_key = l.dc_key)
        Row(l, r) == [c \in cols |-> IF c \in rcols THEN r[c] ELSE l[c]]
        Unmatched(l) == [c \in cols |-> IF c \in rcols THEN NaN ELSE l[c]]
        Joined(l) ==
            IF Len(Matches(l)) = 0 THEN << Unmatched(l) >>
            ELSE [j \in 1..Len(Matches(l)) |-> Row(l, Matches(l)[j])]
        F[i \in 0..Len(left.rows)] ==
            IF i = 0 THEN <<>> ELSE F[i - 1] \o Joined(left.rows[i])
    IN  Frame(cols, F[Len(left.rows)])

LeftMerge(left, right) ==
    LET overlap == (left.cols \cap right.cols) \ {"dc_key"}
        LName(c) == IF c \in overlap THEN SuffixX(c) ELSE c
        RName(c) == IF c \in overlap THEN SuffixY(c) ELSE c
        rcols == right.cols \ {"dc_key"}
        cols == {LName(c) : c \in left.cols} \cup {RName(c) : c \in rcols}
        FromLeft(c) == \E lc \in left.cols : LName(lc) = c
        LCol(c) == CHOOSE lc \in left.cols : LName(lc) = c
        RCol(c) == CHOOSE rc \in rcols : RName(rc) = c
        Matches(l) == SelectSeq(right.rows, LAMBDA r : r.dc_key = l.dc_key)
        Row(l, r) == [c \in cols |-> IF FromLeft(c) THEN l[LCol(c)] ELSE r[RCol(c)]]
        Unmatched(l) == [c \in cols |-> IF FromLeft(c) THEN l[LCol(c)] ELSE NaN]
        Joined(l) ==
            IF Len(Matches(l)) = 0 THEN << Unmatched(l) >>
            ELSE [j \in 1..Len(Matches(l)) |-> Row(l, Matches(l)[j])]
        F[i \in 0..Len(left.rows)] ==
            IF i = 0 THEN <<>> ELSE F[i - 1] \o Joined(left.rows[i])
    IN  Frame(cols, F[Len(left.rows)])

\* df["has_court_case"].fillna(False)
FillNaKept(v) == v
FillNa(v) == IF v = NaN THEN "False" ELSE v

\* .assign(has_court_case=lambda df: df["has_court_case"].fillna(False))
AssignHasCourtCase(frame) ==
    Frame(frame.cols,
          [i \in 1..Len(frame.rows) |->
              [frame.rows[i] EXCEPT !["has_court_case"] = FillNa(@)]])

\* courts.merge
merge(data, file) ==
    IF ~file.exists THEN [status |-> "FileNotFoundError", frame |-> data]
    ELSE LET merged == LeftMerge(data, Frame({"dc_key", "has_court_case"}, file.rows))
         IN  IF "has_court_case" \notin merged.cols
             THEN [status |-> "KeyError", frame |-> data]
             ELSE [status |-> "ok", frame |-> AssignHasCourtCase(merged)]

NoFrame == Frame({}, <<>>)

CourtOff ==
    /\ court_file = [exists |-> FALSE, rows |-> <<>>]
    /\ merge_in = NoFrame
    /\ merge_out = [status |-> "off", frame |-> NoFrame]
    /\ merge_pc = "off"

\* the repository starts without the file or with one an earlier run wrote
InitCourts ==
    /\ court_file \in { [exists |-> FALSE, rows |-> <<>>], [exists |-> TRUE, rows |-> <<>>] }
    /\ merge_in = NoFrame
    /\ merge_out = [status |-> "none", frame |-> NoFrame]
    /\ merge_pc = "idle"

\* the command scrape_courts_portal: run on the persisted shootings
RunScraper ==
    /\ merge_pc # "off"
    /\ \E data \in FreshFrames, withCases \in SUBSET DcKeys :
          court_file' = run(data, court_file, withCases)
    /\ UNCHANGED <<merge_in, merge_out, merge_pc>>
    /\ UNCHANGED <<anomVars, geoVars, homVars, shootVars, runVars>>

\* get, line 408: merge_court_info on the fresh batch
Merge ==
    /\ merge_pc # "off"
    /\ \E data \in FreshFrames :
          /\ merge_in' = data
          /\ merge_out' = merge(data, court_file)
    /\ merge_pc' = "once"
    /\ UNCHANGED court_file
    /\ UNCHANGED <<anomVars, geoVars, homVars, shootVars, runVars>>

\* merge applied to what merge returned
MergeAgain ==
    /\ merge_pc = "once"
    /\ merge_out.status = "ok"
    /\ merge_out' = merge(merge_out.frame, court_file)
    /\ merge_pc' = "twice"
    /\ UNCHANGED <<court_file, merge_in>>
    /\ UNCHANGED <<anomVars, geoVars, homVars, shootVars, runVars>>


\* ==========================================================================
\* PPDHomicideTotal.get and PPDHomicideTotal.update (homicides.py 153-212)
\* ==========================================================================
\* a date is a day number; DaysPerYear consecutive days make a calendar year
DaysPerYear == 2
Dates == 0..MaxDate
Totals == 0..MaxTotal
Year(date) == date \div DaysPerYear

CsvRows == [date : Dates, total : Totals]

\* strictly ascending by date in row order
StrictlyAscending(rows) ==
    \A i \in 1..(Len(rows) - 1) : rows[i].date < rows[i + 1].date

\* pd.read_csv: the rows with the RangeIndex labels 0..n-1
ReadCsv(rows) ==
    [i \in 1..Len(rows) |-> [label |-> i - 1, date |-> rows[i].date, total |-> rows[i].total]]

\* df.sort_values("date", ascending=True): the labels travel with the rows
RECURSIVE SortByDate(_)
SortByDate(db) ==
    IF Len(db) = 0 THEN <<>>
    ELSE LET m == CHOOSE i \in 1..Len(db) :
                     \A j \in 1..Len(db) :
                         db[i].date < db[j].date \/ (db[i].date = db[j].date /\ i <= j)
             rest == [k \in 1..(Len(db) - 1) |-> IF k < m THEN db[k] ELSE db[k + 1]]
         IN  <<db[m]>> \o SortByDate(rest)

\* PPDHomicideTotal.get
get(csv) == SortByDate(ReadCsv(csv))

\* database.drop(index=database.index[-1])
DropLast(db) == SubSeq(db, 1, Len(db) - 1)

\* database.loc[len(database)] = [as_of_date, YTD]: a row with that label is
\* overwritten where it stands; without one the frame is enlarged at the end
SetRowAlwaysAppends(db, date, total) ==
    Append(db, [label |-> Len(db), date |-> date, total |-> total])
SetRow(db, date, total) ==
    IF \E i \in 1..Len(db) : db[i].label = Len(db)
    THEN [i \in 1..Len(db) |->
            IF db[i].label = Len(db)
            THEN [label |-> Len(db), date |-> date, total |-> total]
            ELSE db[i]]
    ELSE Append(db, [label |-> Len(db), date |-> date, total |-> total])

\* lines 172-185: the database with the new row
WithNewRow(db, p) ==
    SetRow(IF p.as_of_date = db[Len(db)].date THEN DropLast(db) ELSE db,
           p.as_of_date, p.ytd)

\* lines 187-196: the sanity check on the last two rows
TotalDecreased(db, f) ==
    /\ ~f
    /\ db[Len(db)].total < db[Len(db) - 1].total
    /\ Year(db[Len(db)].date) = Year(db[Len(db) - 1].date)

\* database.drop_duplicates(subset=["date"], keep="last").to_csv(index=False)
DropDuplicateDates(db) ==
    LET LastOfDate(i) == \A j \in (i + 1)..Len(db) : db[j].date # db[i].date
        F[i \in 0..Len(db)] ==
            IF i = 0 THEN <<>>
            ELSE IF LastOfDate(i)
                 THEN Append(F[i - 1], [date |-> db[i].date, total |-> db[i].total])
                 ELSE F[i - 1]
    IN  F[Len(db)]

\* lines 180-181 and 201-203: homicide_totals.json is rebuilt from the page;
\* of its year -> {annual, ytd} entries the current year's ytd is kept here
TotalsJson(p) == [ytd |-> p.ytd]

updateSavesBeforeCheck(csv, json, p, f) ==
    IF Len(csv) = 0 THEN [result |-> "IndexError", csv |-> csv, json |-> json]
    ELSE LET database == WithNewRow(get(csv), p)
         IN  IF Len(database) < 2
             THEN [result |-> "IndexError", csv |-> csv, json |-> json]
             ELSE IF TotalDecreased(database, f)
                  THEN [result |-> "ValueError", csv |-> csv, json |-> TotalsJson(p)]
                  ELSE [result |-> "ok", csv |-> DropDuplicateDates(database),
                        json |-> TotalsJson(p)]

\* PPDHomicideTotal.update: the outcome and the two files it leaves
update(csv, json, p, f) ==
    IF Len(csv) = 0 THEN [result |-> "IndexError", csv |-> csv, json |-> json]
    ELSE LET database == WithNewRow(get(csv), p)
         IN  IF Len(database) < 2
             THEN [result |-> "IndexError", csv |-> csv, json |-> json]
             ELSE IF TotalDecreased(database, f)
                  THEN [result |-> "ValueError", csv |-> csv, json |-> json]
                  ELSE [result |-> "ok", csv |-> DropDuplicateDates(database),
                        json |-> TotalsJson(p)]

HomOff ==
    /\ daily_csv = <<>> /\ page = [as_of_date |-> 0, ytd |-> 0] /\ force = FALSE
    /\ hom_pc = "off" /\ hom_result = "off" /\ totals_json = [ytd |-> 0]

\* the file of the repository: ascending by date, one row per date
InitHomicide ==
    /\ daily_csv \in {rows \in SeqsUpTo(CsvRows, 2) : Len(rows) > 0 /\ StrictlyAscending(rows)}
    /\ page = [as_of_date |-> 0, ytd |-> 0]
    /\ force = FALSE
    /\ hom_pc = "idle"
    /\ hom_result = "none"
    /\ totals_json = [ytd |-> daily_csv[Len(daily_csv)].total]

\* daily_update, line 121: PPDHomicideTotal(debug) loads the page
Scrape ==
    /\ hom_pc = "idle"
    /\ page' \in [as_of_date : Dates, ytd : Totals]
    /\ force' \in BOOLEAN
    /\ hom_pc' = "scraped"
    /\ UNCHANGED <<daily_csv, hom_result, totals_json>>
    /\ UNCHANGED <<anomVars, geoVars, courtVars, shootVars, runVars>>

\* daily_update, line 122: homicide_count.update(force)
Update ==
    /\ hom_pc = "scraped"
    /\ LET u == update(daily_csv, totals_json, page, force)
       IN  /\ daily_csv' = u.csv
           /\ totals_json' = u.json
           /\ hom_result' = u.result
    /\ hom_pc' = "idle"
    /\ UNCHANGED <<page, force>>
    /\ UNCHANGED <<anomVars, geoVars, courtVars, shootVars, runVars>>

\* ==========================================================================
\* ShootingVictimsData.save (shootings.py 418-445) and upload_to_s3 (47-75)
\* ==========================================================================
MaxVictims == 2

Years == {Year(d) : d \in Dates}
FormattedKeys == {"1", "2"}

\* a row of the frame get returns; of the schema's fields the ones save and
\* the checks of get read
VictimRow(key, date, sex) == [dc_key |-> key, date |-> date, sex |-> sex]
VictimRows == {VictimRow(k, d, "M") : k \in FormattedKeys, d \in Dates}
VictimFrames == SeqsUpTo(VictimRows, MaxVictims)

\* years = pd.to_datetime(data["date"]).dt.year
YearsOf(data) == {Year(data[i].date) : i \in DOMAIN data}

RECURSIVE SortedAscending(_)
SortedAscending(S) ==
    IF S = {} THEN <<>>
    ELSE LET m == CHOOSE x \in S : \A y \in S : x <= y
         IN  <<m>> \o SortedAscending(S \ {m})

\* sorted(np.unique(years), reverse=True)
RECURSIVE SortedDescending(_)
SortedDescending(S) ==
    IF S = {} THEN <<>>
    ELSE LET m == CHOOSE x \in S : \A y \in S : x >= y
         IN  <<m>> \o SortedDescending(S \ {m})

unique_years(data) == SortedDescending(YearsOf(data))

\* data.loc[years == year]; to_crs re-projects coordinates, which these rows
\* do not carry
data_yr(data, year) == SelectSeq(data, LAMBDA r : Year(r.date) = year)

\* to_file / upload_file create or replace the file of one year
WriteFile(files, year, rows) ==
    [y \in DOMAIN files \cup {year} |-> IF y = year THEN rows ELSE files[y]]

\* a snapshot an earlier run left: for some years a partition of n rows
OldRow(year) == VictimRow("1", year * DaysPerYear, "M")
OldPartition(year, n) == [i \in 1..n |-> OldRow(year)]
OldPartitions(counts) ==
    UNION {{[y \in Y |-> OldPartition(y, c[y])] : c \in [Y -> counts]} :
           Y \in SUBSET Years}

ShootOff ==
    /\ raw = <<>> /\ victims = <<>> /\ get_result = "off"
    /\ data_years = <<>> /\ partitions = <<>> /\ bucket = <<>>
    /\ save_i = 0 /\ save_pc = "off"
    /\ disk_before = [data_years |-> <<>>, partitions |-> <<>>]

InitSave ==
    /\ raw = <<>> /\ get_result = "off"
    /\ victims \in VictimFrames
    /\ partitions \in OldPartitions({0, 1})
    /\ data_years = SortedDescending(DOMAIN partitions)
    /\ bucket = partitions
    /\ save_i = 0
    /\ save_pc = "call"
    /\ disk_before = [data_years |-> data_years, partitions |-> partitions]

\* lines 421-427: the manifest is dumped before the loop over the years
DumpYears ==
    /\ save_pc = "call"
    /\ disk_before' = [data_years |-> data_years, partitions |-> partitions]
    /\ data_years' = unique_years(victims)
    /\ save_i' = 1
    /\ save_pc' = IF unique_years(victims) = <<>> THEN "returned" ELSE "to_file"
    /\ UNCHANGED <<raw, victims, get_result, partitions, bucket>>
    /\ UNCHANGED <<anomVars, geoVars, courtVars, homVars, runVars>>

\* lines 436-441: data_yr.to_file(shootings_{year}.json)
ToFile ==
    /\ save_pc = "to_file"
    /\ LET year == data_years[save_i]
       IN  partitions' = WriteFile(partitions, year, data_yr(victims, year))
    /\ save_pc' = "upload"
    /\ UNCHANGED <<raw, victims, get_result, data_years, bucket, save_i, disk_before>>
    /\ UNCHANGED <<anomVars, geoVars, courtVars, homVars, runVars>>

\* to_file raises (the disk is full, the directory is not writable)
ToFileRaises ==
    /\ save_pc = "to_file"
    /\ save_pc' = "raised_to_file"
    /\ UNCHANGED <<raw, victims, get_result, data_years, partitions, bucket, save_i,
                   disk_before>>
    /\ UNCHANGED <<anomVars, geoVars, courtVars, homVars, runVars>>

\* line 444: upload_to_s3(data_yr, shootings_{year}.json), then the next year
Upload ==
    /\ save_pc = "upload"
    /\ LET year == data_years[save_i]
       IN  bucket' = WriteFile(bucket, year, data_yr(victims, year))
    /\ save_i' = save_i + 1
    /\ save_pc' = IF save_i = Len(data_years) THEN "returned" ELSE "to_file"
    /\ UNCHANGED <<raw, victims, get_result, data_years, partitions, disk_before>>
    /\ UNCHANGED <<anomVars, geoVars, courtVars, homVars, runVars>>

\* s3.upload_file raises (no credentials, no connection)
UploadRaises ==
    /\ save_pc = "upload"
    /\ save_pc' = "raised_upload"
    /\ UNCHANGED <<raw, victims, get_result, data_years, partitions, bucket, save_i,
                   disk_before>>
    /\ UNCHANGED <<anomVars, geoVars, courtVars, homVars, runVars>>

\* ==========================================================================
\* ShootingVictimsData.get (shootings.py 309-416)
\* ==========================================================================
MaxRaw == 2

\* the day the run happens: pd.Timestamp.now()
Today == MaxDate

\* a row of the carto table; dc_key arrives as a float or missing
RawRow(key, date, sex, officer) ==
    [dc_key |-> key, date |-> date, sex |-> sex, officer_involved |-> officer]
BaseRawRow == RawRow("1.0", 0, "M", "N")
RawRowSet ==
    { BaseRawRow,
      [BaseRawRow EXCEPT !.dc_key = "2.0"],
      [BaseRawRow EXCEPT !.dc_key = NaN],
      [BaseRawRow EXCEPT !.date = Today],
      [BaseRawRow EXCEPT !.date = Today + 1],
      [BaseRawRow EXCEPT !.sex = "U"],
      [BaseRawRow EXCEPT !.officer_involved = "Y"] }
RawBatches ==
    SeqsUpTo(RawRowSet, MaxRaw) \cup {[i \in 1..(UPPER_TOLERANCE + 1) |-> BaseRawRow]}

\* line 320: df.query("officer_involved == 'N'")
NotOfficerInvolved(rawdf) == SelectSeq(rawdf, LAMBDA r : r.officer_involved = "N")

\* lines 323-324: missing_dc_keys.sum()
HasMissingDcKeys(rawdf) == \E i \in DOMAIN rawdf : rawdf[i].dc_key = NaN

\* line 335: df.dc_key.astype(float).astype(int).astype(str); astype(int)
\* raises on a column that holds NaN
CastRaises(rawdf) == \E i \in DOMAIN rawdf : rawdf[i].dc_key = NaN
CastKey(k) == IF k = "1.0" THEN "1" ELSE IF k = "2.0" THEN "2" ELSE k

\* line 357: sort_values("date", ascending=False), equal dates in row order
RECURSIVE RowsDatedFrom(_, _)
RowsDatedFrom(rows, d) ==
    IF d < 0 THEN <<>>
    ELSE SelectSeq(rows, LAMBDA r : r.date = d) \o RowsDatedFrom(rows, d - 1)

SortByDateDescending(rows) == RowsDatedFrom(rows, Today + 1)

\* lines 329-361: the formatted frame
Format(rawdf) ==
    SortByDateDescending(
        [i \in DOMAIN rawdf |->
            VictimRow(CastKey(rawdf[i].dc_key), rawdf[i].date, rawdf[i].sex)])

\* lines 368-372: rows dated after now are dropped
DropFutureDates(rows) == SelectSeq(rows, LAMBDA r : r.date <= Today)

\* len(old_df) of load_existing_shootings_data
RECURSIVE OldLength(_)
OldLength(files) ==
    IF DOMAIN files = {} THEN 0
    ELSE LET y == CHOOSE x \in DOMAIN files : TRUE
         IN  Len(files[y]) + OldLength([z \in DOMAIN files \ {y} |-> files[z]])

\* courts.merge, piped at line 408, reads the court index first: read_csv
\* raises when scraped_courts_data.csv does not exist
ReadCsvRaises(file) == ~file.exists

\* how add_geographic_info can end for get
GeoOutcomes == {"returned", "raised_carto", "raised_length"}

\* validate_data_schema(ShootingVictimsSchema) on the returned frame: every
\* row must fit the schema (sex in M/F, dc_key without a trailing .0)
SchemaViolation(rows) ==
    \E i \in DOMAIN rows :
        \/ rows[i].sex \notin {"M", "F"}
        \/ rows[i].dc_key \in {"1.0", "2.0"}
        \/ rows[i].dc_key = NaN

\* get: how it ends and the frame it returns, for the table rawdf, the
\* partitions files on disk, the court index file and the outcome geo of
\* add_geographic_info
ShootingVictimsData_get(ignore, rawdf, files, file, geo) ==
    LET df0 == NotOfficerInvolved(rawdf)
        out(res, frame) == [result |-> res, frame |-> frame]
    IN  IF HasMissingDcKeys(df0) /\ ~ignore THEN out("missing_dc_keys", <<>>)
        ELSE IF CastRaises(df0) THEN out("cast_error", <<>>)
        ELSE LET df1 == DropFutureDates(Format(df0))
                 checks ==
                     RowCountChecks(ignore, Len(df1), Cardinality(DOMAIN files),
                                    OldLength(files))
             IN  IF checks \in {"load_error", "too_many_rows", "too_few_rows"}
                 THEN out(checks, <<>>)
                 ELSE IF geo # "returned" THEN out(geo, <<>>)
                 ELSE IF ReadCsvRaises(file) THEN out("FileNotFoundError", <<>>)
                 ELSE IF SchemaViolation(df1) THEN out("schema_error", <<>>)
                 ELSE out("ok", df1)


\* ==========================================================================
\* daily_update (__main__.py 85-152)
\* ==========================================================================
RunOff ==
    /\ homicides_only = FALSE /\ shootings_only = FALSE
    /\ meta_json = <<>>
    /\ run_pc = "off"

\* line 113: now, and a stamp an earlier run wrote
Now == "now"
Earlier == "earlier"

MetaKeys == {"last_updated", "last_updated_homicides", "last_updated_shootings", "other"}

\* data/meta.json as earlier runs and earlier versions left it
MetaFiles == {[k \in K |-> Earlier] : K \in { {"last_updated", "other"}, MetaKeys }}

\* line 108
process_all == ~(homicides_only \/ shootings_only)

\* lines 110, 125, 138: the dict meta when the end of daily_update is reached
meta ==
    [k \in (IF process_all \/ homicides_only THEN {"last_updated_homicides"} ELSE {})
           \cup
           (IF process_all \/ shootings_only THEN {"last_updated_shootings"} ELSE {})
        |-> Now]

UpdateMetaKeepingLegacy(existing_meta, m) ==
    [k \in DOMAIN existing_meta \cup DOMAIN m |->
        IF k \in DOMAIN m THEN m[k] ELSE existing_meta[k]]

\* lines 144-149: pop("last_updated"), then existing_meta.update(meta)
UpdateMeta(existing_meta, m) ==
    [k \in (DOMAIN existing_meta \ {"last_updated"}) \cup DOMAIN m |->
        IF k \in DOMAIN m THEN m[k] ELSE existing_meta[k]]

\* the series and the pages the homicide stage of a run meets
DailyCsv == <<[date |-> 0, total |-> 1], [date |-> 1, total |-> 1]>>
DailyPages == {[as_of_date |-> 1, ytd |-> t] : t \in {0, MaxTotal}}

\* the partitions an earlier run left, all of the first year
DailyPartitions ==
    {f \in OldPartitions({0, LOWER_TOLERANCE + 1}) : DOMAIN f \subseteq {Year(0)}}

InitDaily ==
    /\ ignore_checks \in BOOLEAN
    /\ new_len = 0 /\ old_files = 0 /\ old_len = 0 /\ check_result = "off"
    /\ GeoOff
    /\ court_file \in { [exists |-> FALSE, rows |-> <<>>], [exists |-> TRUE, rows |-> <<>>] }
    /\ merge_in = NoFrame
    /\ merge_out = [status |-> "off", frame |-> NoFrame]
    /\ merge_pc = "off"
    /\ daily_csv = DailyCsv
    /\ page = [as_of_date |-> 0, ytd |-> 0]
    /\ force \in BOOLEAN
    /\ hom_pc = "off"
    /\ hom_result = "none"
    /\ totals_json = [ytd |-> daily_csv[Len(daily_csv)].total]
    /\ raw = <<>> /\ victims = <<>> /\ get_result = "none"
    /\ partitions \in DailyPartitions
    /\ data_years = SortedDescending(DOMAIN partitions)
    /\ bucket = partitions
    /\ save_i = 0
    /\ save_pc = "idle"
    /\ disk_before = [data_years |-> data_years, partitions |-> partitions]
    /\ homicides_only \in BOOLEAN
    /\ shootings_only \in BOOLEAN
    /\ meta_json \in MetaFiles
    /\ run_pc = "homicides"

\* lines 118-125: the homicide stage; an exception of update ends the run
HomicideStage ==
    /\ run_pc = "homicides"
    /\ process_all \/ homicides_only
    /\ \E p \in DailyPages :
          LET u == update(daily_csv, totals_json, p, force)
          IN  /\ page' = p
              /\ daily_csv' = u.csv
              /\ totals_json' = u.json
              /\ hom_result' = u.result
              /\ run_pc' = IF u.result = "ok" THEN "shootings" ELSE "aborted"
    /\ UNCHANGED <<force, hom_pc, homicides_only, shootings_only, meta_json>>
    /\ UNCHANGED <<anomVars, geoVars, courtVars, shootVars>>

\* line 118, the condition false
SkipHomicides ==
    /\ run_pc = "homicides"
    /\ ~(process_all \/ homicides_only)
    /\ run_pc' = "shootings"
    /\ UNCHANGED <<homicides_only, shootings_only, meta_json>>
    /\ UNCHANGED <<anomVars, geoVars, courtVars, homVars, shootVars>>

\* lines 130-132: victims.get(); an exception ends the run
Get ==
    /\ run_pc = "shootings"
    /\ process_all \/ shootings_only
    /\ \E rawdf \in RawBatches, geo \in GeoOutcomes :
          LET g == ShootingVictimsData_get(ignore_checks, rawdf, partitions,
                                           court_file, geo)
          IN  /\ raw' = rawdf
              /\ victims' = g.frame
              /\ get_result' = g.result
              /\ save_pc' = IF g.result = "ok" THEN "call" ELSE save_pc
              /\ run_pc' = IF g.result = "ok" THEN "save" ELSE "aborted"
    /\ UNCHANGED <<data_years, partitions, bucket, save_i, disk_before>>
    /\ UNCHANGED <<homicides_only, shootings_only, meta_json>>
    /\ UNCHANGED <<anomVars, geoVars, courtVars, homVars>>

\* line 130, the condition false
SkipShootings ==
    /\ run_pc = "shootings"
    /\ ~(process_all \/ shootings_only)
    /\ run_pc' = "meta"
    /\ UNCHANGED <<homicides_only, shootings_only, meta_json>>
    /\ UNCHANGED <<anomVars, geoVars, courtVars, homVars, shootVars>>

\* lines 135-138: victims.save(data) has returned
SaveReturned ==
    /\ run_pc = "save"
    /\ save_pc = "returned"
    /\ run_pc' = "meta"
    /\ UNCHANGED <<homicides_only, shootings_only, meta_json>>
    /\ UNCHANGED <<anomVars, geoVars, courtVars, homVars, shootVars>>

\* line 135: victims.save(data) has raised, which ends the run
SaveRaised ==
    /\ run_pc = "save"
    /\ save_pc \in {"raised_to_file", "raised_upload"}
    /\ run_pc' = "aborted"
    /\ UNCHANGED <<homicides_only, shootings_only, meta_json>>
    /\ UNCHANGED <<anomVars, geoVars, courtVars, homVars, shootVars>>

\* lines 140-152: meta.json is loaded, updated and dumped
WriteMeta ==
    /\ run_pc = "meta"
    /\ meta_json' = UpdateMeta(meta_json, meta)
    /\ run_pc' = "done"
    /\ UNCHANGED <<homicides_only, shootings_only>>
    /\ UNCHANGED <<anomVars, geoVars, courtVars, homVars, shootVars>>

\* ==========================================================================
\* specifications
\* ==========================================================================
InitA == InitAnomaly /\ GeoOff /\ CourtOff /\ HomOff /\ ShootOff /\ RunOff
NextA == Checks
SpecAnomaly == InitA /\ [][NextA]_vars

InitG == AnomOff /\ InitGeo /\ CourtOff /\ HomOff /\ ShootOff /\ RunOff
NextG == CityLimits \/ Recover \/ JoinLayer \/ FinishGeo \/ FillGeometry
SpecGeo == InitG /\ [][NextG]_vars

InitC == AnomOff /\ GeoOff /\ InitCourts /\ HomOff /\ ShootOff /\ RunOff
NextC == RunScraper \/ Merge \/ MergeAgain
SpecCourts == InitC /\ [][NextC]_vars

InitH == AnomOff /\ GeoOff /\ CourtOff /\ InitHomicide /\ ShootOff /\ RunOff
NextH == Scrape \/ Update
SpecHomicide == InitH /\ [][NextH]_vars

InitS == AnomOff /\ GeoOff /\ CourtOff /\ HomOff /\ InitSave /\ RunOff
NextS == DumpYears \/ ToFile \/ ToFileRaises \/ Upload \/ UploadRaises
SpecSave == InitS /\ [][NextS]_vars

InitD == InitDaily
NextD ==
    \/ HomicideStage \/ SkipHomicides \/ Get \/ SkipShootings
    \/ DumpYears \/ ToFile \/ ToFileRaises \/ Upload \/ UploadRaises
    \/ SaveReturned \/ SaveRaised \/ WriteMeta
SpecDaily == InitD /\ [][NextD]_vars

Init == InitA \/ InitG \/ InitC \/ InitH \/ InitS \/ InitD
Next == NextA \/ NextG \/ NextC \/ NextH \/ NextS \/ NextD
Spec == Init /\ [][Next]_vars

\* ==========================================================================
\* claims
\* ==========================================================================
Returned == geo_pc \in {"returned", "filled"}

\* C1: whenever add_geographic_info returns, the batch has as many rows as
\* the batch it was given and every input row is in it exactly once (no row
\* added, none dropped); otherwise it has raised.
C1_RowsNeitherAddedNorDropped ==
    /\ geo_pc \in {"call", "recover", "join", "returned", "filled",
                   "raised_carto", "raised_length"}
    /\ Returned =>
          /\ Len(df) = Len(geo_in)
          /\ \A r \in 1..Len(geo_in) :
                Cardinality({i \in 1..Len(df) : df[i].rid = r}) = 1

\* a returned batch of two rows whose missing geometry was recovered and
\* whose rows were reordered by the concatenation
C1_Witness ==
    /\ geo_pc = "returned"
    /\ Len(df) = 2
    /\ df[1].rid = 2
    /\ geo_in[df[2].rid].geometry = NaN
    /\ df[2].geometry # NaN

\* C2: a dc_key the persisted index records with has_court_case = True is
\* still recorded as True in the index every later run of the scraper writes.
C2_RecordedTrueStaysTrue ==
    [][\A k \in DcKeys : k \in KnownCases(court_file) => k \in KnownCases(court_file')]_vars

\* the row of the series with the latest date
LatestRow(rows) == CHOOSE r \in Range(rows) : \A q \in Range(rows) : q.date <= r.date

\* the series the new row is appended to: without its latest row when that
\* row carries the new as-of date
SeriesBefore(rows, p) ==
    IF LatestRow(rows).date = p.as_of_date THEN Range(rows) \ {LatestRow(rows)}
    ELSE Range(rows)

UpdateStep == hom_pc = "scraped" /\ hom_pc' = "idle"
NewRowOfPage == [date |-> page.as_of_date, total |-> page.ytd]

\* C3: update raises the monotonicity error exactly when force is not set,
\* the new total is lower than the previous trailing total and both rows are
\* of the same calendar year.
C3_MonotonicityErrorExactly ==
    [][UpdateStep =>
        LET before == SeriesBefore(daily_csv, page)
            prev == CHOOSE r \in before : \A q \in before : q.date <= r.date
        IN  (hom_result' = "ValueError") <=>
                /\ ~force
                /\ before # {}
                /\ page.ytd < prev.total
                /\ Year(page.as_of_date) = Year(prev.date)]_vars

\* C4: an accepted update replaces the latest row when it has the new as-of
\* date (same number of rows) and otherwise adds exactly one row; every
\* other recorded row is kept unchanged.
C4_ReplaceLastOrAppendOne ==
    [][(UpdateStep /\ hom_result' = "ok") =>
        IF LatestRow(daily_csv).date = page.as_of_date
        THEN /\ Len(daily_csv') = Len(daily_csv)
             /\ Range(daily_csv') =
                    (Range(daily_csv) \ {LatestRow(daily_csv)}) \cup {NewRowOfPage}
        ELSE /\ Len(daily_csv') = Len(daily_csv) + 1
             /\ Range(daily_csv') = Range(daily_csv) \cup {NewRowOfPage}]_vars

\* C5: the persisted homicide_totals_daily.csv is strictly ascending by date
\* in row order after any sequence of updates.
C5_DailyCsvStrictlyAscending == hom_pc # "off" => StrictlyAscending(daily_csv)

Checked == check_result \notin {"off", "pending"}

\* C6: with ignore_checks unset and a previous snapshot on disk, the batch is
\* rejected as too many rows exactly when new - old > 100, as too few rows
\* exactly when old - new > 10, and passes otherwise; the check is skipped
\* exactly when ignore_checks is set.
C6_AnomalyThresholds ==
    Checked =>
        /\ (check_result = "skipped") <=> ignore_checks
        /\ (~ignore_checks /\ old_files > 0) =>
              /\ (check_result = "too_many_rows") <=> (new_len - old_len > 100)
              /\ (check_result = "too_few_rows") <=> (old_len - new_len > 10)
              /\ (check_result = "passed") <=>
                    (new_len - old_len <= 100 /\ old_len - new_len <= 10)

\* a batch exactly 100 rows longer than the snapshot passes
C6_Witness ==
    /\ check_result = "passed"
    /\ ~ignore_checks
    /\ new_len - old_len = 100

Against1000 == Checked /\ ~ignore_checks /\ old_files > 0 /\ old_len = 1000
Rejected == check_result \in {"too_many_rows", "too_few_rows"}

\* C7 as stated: against 1000 old rows, 1101 is rejected, 1090 passes,
\* 989 passes and 985 is rejected.
C7_Examples ==
    Against1000 =>
        /\ new_len = 1101 => Rejected
        /\ new_len = 1090 => check_result = "passed"
        /\ new_len = 989 => check_result = "passed"
        /\ new_len = 985 => Rejected

\* C7 amended: against 1000 old rows, 1101 is rejected, 1090 passes, and
\* both 989 (11 rows fewer) and 985 are rejected as too few rows.
C7_ExamplesAmended ==
    Against1000 =>
        /\ new_len = 1101 => check_result = "too_many_rows"
        /\ new_len = 1090 => check_result = "passed"
        /\ new_len = 989 => check_result = "too_few_rows"
        /\ new_len = 985 => check_result = "too_few_rows"

C7_Witness == Against1000 /\ new_len = 989 /\ check_result = "too_few_rows"

\* the keys the index file has a row for
IndexedKeys(file) == {r.dc_key : r \in Range(file.rows)}

\* C8: a merge that succeeds keeps the rows of the batch and gives
\* has_court_case = True to every row whose dc_key the index records as
\* True and has_court_case = False to every row whose dc_key the index lacks.
C8_MergeFillsFromIndex ==
    [][(Merge /\ merge_out'.status = "ok") =>
        LET rows == merge_out'.frame.rows
        IN  /\ Len(rows) = Len(merge_in'.rows)
            /\ \A i \in 1..Len(rows) :
                  /\ rows[i].dc_key = merge_in'.rows[i].dc_key
                  /\ rows[i].dc_key \in KnownCases(court_file) =>
                        rows[i].has_court_case = "True"
                  /\ rows[i].dc_key \notin IndexedKeys(court_file) =>
                        rows[i].has_court_case = "False"]_vars

\* a merged batch with a row the index knows a case for and a row it lacks
C8_Witness ==
    /\ merge_pc = "once"
    /\ merge_out.status = "ok"
    /\ Len(merge_out.frame.rows) = 2
    /\ merge_out.frame.rows[1].dc_key \in KnownCases(court_file)
    /\ merge_out.frame.rows[1].has_court_case = "True"
    /\ merge_out.frame.rows[2].dc_key \notin IndexedKeys(court_file)
    /\ merge_out.frame.rows[2].has_court_case = "False"

\* C9 as stated: merge applied to the output of merge succeeds and returns
\* that output again.
C9_MergeIdempotent == [][MergeAgain => merge_out' = merge_out]_vars

\* C9 amended: merge applied to the output of a successful merge raises
\* KeyError (the frame already has a has_court_case column).
C9_SecondMergeRaisesKeyError == merge_pc = "twice" => merge_out.status = "KeyError"

C9_Witness ==
    /\ merge_pc = "twice"
    /\ Len(merge_in.rows) = 2
    /\ merge_out.status = "KeyError"

\* C10: in the enriched batch every record with a neighborhood has the six
\* other region fields set, and every record without one has empty geometry.
C10_LocatedInAllLayersOrNone ==
    geo_pc = "filled" =>
        \A i \in 1..Len(df) :
            /\ df[i].neighborhood # NaN =>
                  \A c \in Range(GeoColumns) : df[i][c] # NaN
            /\ df[i].neighborhood = NaN => df[i].geometry = EmptyPoint

\* --------------------------------------------------------------------------
\* ShootingVictimsData.save
\* --------------------------------------------------------------------------
Count(frame, r) == Cardinality({i \in DOMAIN frame : frame[i] = r})

\* C11: when save has returned, data_years.json lists exactly the distinct
\* years of the records' dates in strictly descending order, every listed
\* year has a partition holding only rows of that year, and every record of
\* the dataset is in the partition of its year as often as in the dataset,
\* the partitions holding nothing else
C11_ManifestAndPartitions ==
    save_pc = "returned" =>
        /\ \A i, j \in DOMAIN data_years : i < j => data_years[i] > data_years[j]
        /\ Range(data_years) = YearsOf(victims)
        /\ \A y \in Range(data_years) :
              /\ y \in DOMAIN partitions
              /\ \A k \in DOMAIN partitions[y] :
                    /\ Year(partitions[y][k].date) = y
                    /\ partitions[y][k] \in Range(victims)
        /\ \A r \in Range(victims) :
              Count(partitions[Year(r.date)], r) = Count(victims, r)

\* save returned for a dataset of two years, over a disk whose partitions
\* held other rows
C11_Witness ==
    /\ save_pc = "returned"
    /\ Len(data_years) = 2
    /\ Len(victims) = MaxVictims
    /\ DOMAIN disk_before.partitions = Years
    /\ disk_before.partitions # partitions

\* C15: if save raised while writing or uploading the partition of some year,
\* data_years.json and every partition are as save found them
C15_NoPartialCommit ==
    save_pc \in {"raised_to_file", "raised_upload"} =>
        /\ data_years = disk_before.data_years
        /\ partitions = disk_before.partitions

\* --------------------------------------------------------------------------
\* daily_update
\* --------------------------------------------------------------------------
HomicidesProcessed == hom_result # "none"
ShootingsProcessed == get_result # "none"
StampKeys == {"last_updated_homicides", "last_updated_shootings"}

\* the stamp of a subsystem after the rewrite of meta.json: the run's
\* timestamp if the subsystem was processed, else what the file held
StampRule(key, processed) ==
    IF processed
    THEN key \in DOMAIN meta_json' /\ meta_json'[key] = Now
    ELSE /\ key \in DOMAIN meta_json' <=> key \in DOMAIN meta_json
         /\ key \in DOMAIN meta_json => meta_json'[key] = meta_json[key]

\* C12: the step of a successful daily_update that rewrites meta.json leaves
\* it without the legacy key last_updated, with last_updated_homicides and
\* last_updated_shootings set to the run's timestamp exactly for the
\* subsystems processed in the run, and with every other key it had,
\* the stamp of a skipped subsystem included, at its previous value
C12_MetaRewrite ==
    [][run_pc = "meta" /\ run_pc' = "done" =>
          /\ "last_updated" \notin DOMAIN meta_json'
          /\ StampRule("last_updated_homicides", HomicidesProcessed)
          /\ StampRule("last_updated_shootings", ShootingsProcessed)
          /\ \A k \in DOMAIN meta_json \ ({"last_updated"} \cup StampKeys) :
                k \in DOMAIN meta_json' /\ meta_json'[k] = meta_json[k]
          /\ DOMAIN meta_json' \subseteq DOMAIN meta_json \cup StampKeys]_vars

\* a run with --shootings-only has ended over a meta.json that held all keys
C12_Witness ==
    /\ run_pc = "done"
    /\ ~HomicidesProcessed /\ ShootingsProcessed
    /\ DOMAIN meta_json = MetaKeys \ {"last_updated"}
    /\ meta_json["last_updated_homicides"] = Earlier
    /\ meta_json["last_updated_shootings"] = Now
    /\ meta_json["other"] = Earlier

FatalGetResults ==
    {"missing_dc_keys", "schema_error", "too_many_rows", "too_few_rows", "raised_length"}

\* C13: a step in which get ends with a missing-key, schema, anomaly or
\* row-count error leaves data_years.json, the partitions and the bucket as
\* they were, and a step in which update ends with the monotonicity error
\* leaves homicide_totals.json and homicide_totals_daily.csv as they were
C13_FailedStageWritesNothing ==
    [][/\ (run_pc = "shootings" /\ get_result' \in FatalGetResults) =>
             /\ run_pc' = "aborted"
             /\ UNCHANGED <<data_years, partitions, bucket>>
       /\ (run_pc = "homicides" /\ hom_result' = "ValueError") =>
             /\ run_pc' = "aborted"
             /\ UNCHANGED <<totals_json, daily_csv>>]_vars

\* update raised the monotonicity error on a page whose total differs from
\* the one homicide_totals.json holds
C13_Witness ==
    /\ run_pc = "aborted"
    /\ hom_result = "ValueError"
    /\ TotalsJson(page) # totals_json

\* get raised one of its fatal errors with partitions on disk
C13_WitnessGet ==
    /\ run_pc = "aborted"
    /\ get_result \in FatalGetResults
    /\ DOMAIN partitions # {}

\* C14: with ignore_checks set, get does not fail on a table that has rows
\* without dc_key: it ends neither at the missing-key check nor in the
\* formatting step
C14_TolerantModeContinues ==
    (/\ ignore_checks
     /\ ShootingsProcessed
     /\ HasMissingDcKeys(NotOfficerInvolved(raw)))
        => get_result \notin {"missing_dc_keys", "cast_error"}

\* C16: at the end of a run whose homicide stage rewrote its files, meta.json
\* carries the run's timestamp under last_updated_homicides
C16_HomicideStampFollowsRewrite ==
    (run_pc \in {"done", "aborted"} /\ hom_result = "ok") =>
        /\ "last_updated_homicides" \in DOMAIN meta_json
        /\ meta_json["last_updated_homicides"] = Now

====
